---- MODULE Spec2Model ----
(***************************************************************************)
(* Model of the call-session audio engine of buddyhelps-runpod:            *)
(*   - WhisperPool (src/src/stt_whisper.py): a pool of transcription       *)
(*     workers shared by concurrent transcribe callers (threads);          *)
(*   - TwilioMediaHandler (src/src/twilio_ws.py) and CallStateManager      *)
(*     (src/src/call_state.py): per-connection handlers running as         *)
(*     coroutines of one asyncio event loop over a shared call registry.   *)
(* PoolSpec / PoolLiveSpec are the behaviours of the pool, CallSpec the    *)
(* behaviours of the handlers and the registry.                            *)
(***************************************************************************)
EXTENDS Integers, Sequences, FiniteSets, TLC

(***************************************************************************)
(* Bounds of the model.                                                    *)
(***************************************************************************)
\* configured worker count of the pool (num_instances), scaled down
NumInstances == 2
\* iterations of the polling loop a caller can make before its deadline
MaxPolls == 2

\* concurrent callers (threads) of the pool; more callers than workers
Callers == {1, 2, 3}

\* value of a lock that nobody holds, and of a caller's `instance` when unset
Free == 0
None == 0

(***************************************************************************)
(* State of the pool and of its callers.                                   *)
(***************************************************************************)
VARIABLES
    instances,   \* WhisperPool.instances: sequence of WhisperInstance
    pool_lock,   \* WhisperPool._pool_lock: Free or the caller inside `with`
    is_loaded,   \* WhisperPool._is_loaded
    pc,          \* per caller: the line of stt_whisper.py it is about to run
    op,          \* per caller: the call it issued ("none", "load", "transcribe")
    inst,        \* per caller: local `instance` (index into instances, or None)
    li,          \* per caller: loop variable i of load()
    polls,       \* per caller: completed iterations of the polling loop
    via,         \* per caller: how its worker was acquired ("none", "scan", "fallback")
    outcome,     \* per caller: how its call ended
    released,    \* per caller: number of _release_instance calls it completed
    acc          \* per caller: the total_inferences it read for `+= 1`

poolVars == <<instances, pool_lock, is_loaded, pc, op, inst, li, polls, via,
              outcome, released, acc>>

(***************************************************************************)
(* State of the registry, the call sessions and the handlers.              *)
(***************************************************************************)
VARIABLES
    calls,             \* every CallState object created so far, by object id
    reg_calls,         \* CallStateManager._calls: call_sid -> object id or None
    stream_to_call,    \* CallStateManager._stream_to_call: stream_sid -> call_sid
    hpc,               \* per handler: where its coroutine stands
    call_state,        \* per handler: self.call_state (object id or None)
    stream_sid,        \* per handler: self.stream_sid
    speech_len,        \* per handler: len(self.speech_chunks)
    silence_start,     \* per handler: self.silence_start (None or a time)
    is_user_speaking,  \* per handler: self.is_user_speaking
    is_processing,     \* per handler: self.is_processing
    pending_interrupt, \* per handler: self.pending_interrupt
    ctx,               \* per handler: what speak() is called for
    logged,            \* per handler: what the event it handled last logged:
                       \* the end of a pipeline run or the stop of the stream
    backlog,           \* per handler: speech frames the websocket received
                       \* during a pipeline run, not yet read by iter_text
    late,              \* per handler: speech_chunks holds such a frame
    utc,               \* datetime.utcnow(), in steps
    ret,               \* the last call made on the registry and how it returned
    backend,           \* settings.stt_backend: which stt module is imported
    g_model,           \* stt._model or stt_whisper._pool: None or an object id
    made,              \* model or pool objects constructed so far
    loads,             \* loads of the model or the pool that completed
    g_loaded,          \* stt_whisper: _pool._is_loaded
    g_warmed,          \* stt._is_warmed_up or _pool._is_warmed_up
    lret,              \* the last call of the module and what it returned
    ncalls             \* calls of the module made so far

callVars == <<calls, reg_calls, stream_to_call, hpc, call_state,
              stream_sid, speech_len, silence_start, is_user_speaking,
              is_processing, pending_interrupt, ctx, logged, backlog, late>>

handlerVars == <<hpc, call_state, stream_sid, speech_len, silence_start,
                 is_user_speaking, is_processing, pending_interrupt, ctx>>

\* what the callers of the registry observe
obsVars == <<utc, ret>>

\* the globals of the imported stt module and what its callers observe
loadVars == <<backend, g_model, made, loads, g_loaded, g_warmed, lret, ncalls>>

vars == <<poolVars, callVars, obsVars, loadVars>>

\* WhisperInstance(model, lock, index) with busy = False, total_inferences = 0.
\* The position in `instances` identifies the worker; the index field, which
\* only logging and get_stats read, is left out of the record.
NewInstance(i) ==
    [lock |-> Free, busy |-> FALSE, total_inferences |-> 0]

\* WhisperPool.__init__ : no instances, not loaded; no caller has called yet
PoolInit ==
    /\ instances = << >>
    /\ pool_lock = Free
    /\ is_loaded = FALSE
    /\ pc = [c \in Callers |-> "idle"]
    /\ op = [c \in Callers |-> "none"]
    /\ inst = [c \in Callers |-> None]
    /\ li = [c \in Callers |-> 0]
    /\ polls = [c \in Callers |-> 0]
    /\ via = [c \in Callers |-> "none"]
    /\ outcome = [c \in Callers |-> "none"]
    /\ released = [c \in Callers |-> 0]
    /\ acc = [c \in Callers |-> 0]

(***************************************************************************)
(* Helpers of the pool actions.                                            *)
(***************************************************************************)
Goto(c, l) == pc' = [pc EXCEPT ![c] = l]

\* mutant: an acquire that does not test the lock
CanAcquireAlways(i) == TRUE

\* threading.Lock.acquire on instance i succeeds only on an unlocked lock
CanAcquire(i) == instances[i].lock = Free

\* instance.lock is taken by caller c
LockInstance(c, i) == instances' = [instances EXCEPT ![i].lock = c]

\* a caller is between its acquire of a worker and its release of it
HeldPCs == {"g141", "g151", "t175", "t181", "t194", "t156", "t157"}
Held(c) == pc[c] \in HeldPCs

(***************************************************************************)
(* A caller issues WhisperPool.load() or WhisperPool.transcribe().         *)
(***************************************************************************)
CallLoad(c) ==
    /\ pc[c] = "idle"
    /\ op' = [op EXCEPT ![c] = "load"]
    /\ Goto(c, "l61")
    /\ UNCHANGED <<instances, pool_lock, is_loaded, inst, li, polls, via,
                   outcome, released>>
    /\ UNCHANGED <<loadVars, callVars, obsVars, acc>>

\* transcribe, line 171: if not self._is_loaded: self.load()
CallTranscribe(c) ==
    /\ pc[c] = "idle"
    /\ op' = [op EXCEPT ![c] = "transcribe"]
    /\ Goto(c, IF is_loaded THEN "g136" ELSE "l61")
    /\ UNCHANGED <<instances, pool_lock, is_loaded, inst, li, polls, via,
                   outcome, released>>
    /\ UNCHANGED <<loadVars, callVars, obsVars, acc>>

\* where load() returns to: its caller is done, or transcribe goes on
LoadReturn(c) == IF op[c] = "load" THEN "done" ELSE "g136"

\* load, lines 61-62: if self._is_loaded: return
LoadCheckLoaded(c) ==
    /\ pc[c] = "l61"
    /\ IF is_loaded
         THEN /\ Goto(c, LoadReturn(c))
              /\ outcome' = [outcome EXCEPT
                     ![c] = IF op[c] = "load" THEN "loaded" ELSE @]
         ELSE /\ Goto(c, "l68")
              /\ UNCHANGED outcome
    /\ UNCHANGED <<instances, pool_lock, is_loaded, op, inst, li, polls, via,
                   released>>
    /\ UNCHANGED <<loadVars, callVars, obsVars, acc>>

\* load, lines 68-84: one iteration of the loop appends one instance
LoadAppend(c) ==
    /\ pc[c] = "l68"
    /\ li[c] < NumInstances
    /\ instances' = Append(instances, NewInstance(li[c]))
    /\ li' = [li EXCEPT ![c] = @ + 1]
    /\ UNCHANGED <<pool_lock, is_loaded, pc, op, inst, polls, via, outcome,
                   released>>
    /\ UNCHANGED <<loadVars, callVars, obsVars, acc>>

\* load, line 86: self._is_loaded = True, and return
LoadFinish(c) ==
    /\ pc[c] = "l68"
    /\ li[c] >= NumInstances
    /\ is_loaded' = TRUE
    /\ li' = [li EXCEPT ![c] = 0]
    /\ Goto(c, LoadReturn(c))
    /\ outcome' = [outcome EXCEPT ![c] = IF op[c] = "load" THEN "loaded" ELSE @]
    /\ UNCHANGED <<instances, pool_lock, op, inst, polls, via, released>>
    /\ UNCHANGED <<loadVars, callVars, obsVars, acc>>

(***************************************************************************)
(* WhisperPool._get_available_instance                                     *)
(***************************************************************************)
\* lines 136-138: while time.time() < deadline: with self._pool_lock -- the
\* deadline has not passed (at most MaxPolls iterations) and the pool lock is
\* taken once it is free; the for loop starts at the first instance
\* mutant: the scan starts at the last instance of the configured pool
ScanStartLast == NumInstances

\* line 139: for instance in self.instances -- the list is walked from its
\* first element
ScanStart == 1

ScanBegin(c) ==
    /\ pc[c] = "g136"
    /\ polls[c] < MaxPolls
    /\ pool_lock = Free
    /\ pool_lock' = c
    /\ inst' = [inst EXCEPT ![c] = ScanStart]
    /\ Goto(c, "g140")
    /\ UNCHANGED <<instances, is_loaded, op, li, polls, via, outcome, released>>
    /\ UNCHANGED <<loadVars, callVars, obsVars, acc>>

\* mutant: at the deadline the acquire gives up and returns None
TimeoutReturnsNone == [pc |-> "t175", inst |-> None]

\* mutant: at the deadline the caller waits for the second instance
TimeoutWaitsForSecond == [pc |-> "g150", inst |-> 2]

\* what the acquire does once the deadline has passed: the pc it goes to and
\* the instance it has chosen (lines 148-149: instance = self.instances[0])
AfterTimeout == [pc |-> "g150", inst |-> 1]

\* line 136 false: the deadline has passed
PollTimeout(c) ==
    /\ pc[c] = "g136"
    /\ inst' = [inst EXCEPT ![c] = AfterTimeout.inst]
    /\ Goto(c, AfterTimeout.pc)
    /\ UNCHANGED <<instances, pool_lock, is_loaded, op, li, polls, via, outcome,
                   released>>
    /\ UNCHANGED <<loadVars, callVars, obsVars, acc>>

\* lines 139-140: instance.lock.acquire(blocking=False) on the next instance;
\* after the last instance the with block is left (pool lock released) and
\* line 145 sleeps before the loop condition is tested again
ScanStep(c) ==
    /\ pc[c] = "g140"
    /\ IF inst[c] > Len(instances)
         THEN /\ pool_lock' = Free
              /\ inst' = [inst EXCEPT ![c] = None]
              /\ polls' = [polls EXCEPT ![c] = @ + 1]
              /\ Goto(c, "g136")
              /\ UNCHANGED instances
         ELSE IF CanAcquire(inst[c])
           THEN /\ LockInstance(c, inst[c])
                /\ Goto(c, "g141")
                /\ UNCHANGED <<pool_lock, inst, polls>>
           ELSE /\ inst' = [inst EXCEPT ![c] = @ + 1]
                /\ UNCHANGED <<instances, pool_lock, pc, polls>>
    /\ UNCHANGED <<is_loaded, op, li, via, outcome, released>>
    /\ UNCHANGED <<loadVars, callVars, obsVars, acc>>

\* mutant: the scan returns its instance without releasing the pool lock
ScanReturnKeepsPoolLock(c) ==
    /\ pc[c] = "g141"
    /\ instances' = [instances EXCEPT ![inst[c]].busy = TRUE]
    /\ via' = [via EXCEPT ![c] = "scan"]
    /\ polls' = [polls EXCEPT ![c] = 0]
    /\ Goto(c, "t175")
    /\ UNCHANGED <<pool_lock, is_loaded, op, inst, li, outcome, released>>
    /\ UNCHANGED <<loadVars, callVars, obsVars, acc>>

\* lines 141-142: instance.busy = True; return instance (leaving the with
\* block releases the pool lock)
ScanReturn(c) ==
    /\ pc[c] = "g141"
    /\ instances' = [instances EXCEPT ![inst[c]].busy = TRUE]
    /\ pool_lock' = Free
    /\ via' = [via EXCEPT ![c] = "scan"]
    /\ polls' = [polls EXCEPT ![c] = 0]
    /\ Goto(c, "t175")
    /\ UNCHANGED <<is_loaded, op, inst, li, outcome, released>>
    /\ UNCHANGED <<loadVars, callVars, obsVars, acc>>

\* line 150: instance.lock.acquire(blocking=True) on instances[0]
FallbackAcquire(c) ==
    /\ pc[c] = "g150"
    /\ CanAcquire(inst[c])
    /\ LockInstance(c, inst[c])
    /\ Goto(c, "g151")
    /\ UNCHANGED <<pool_lock, is_loaded, op, inst, li, polls, via, outcome,
                   released>>
    /\ UNCHANGED <<loadVars, callVars, obsVars, acc>>

\* lines 151-152: instance.busy = True; return instance
FallbackReturn(c) ==
    /\ pc[c] = "g151"
    /\ instances' = [instances EXCEPT ![inst[c]].busy = TRUE]
    /\ via' = [via EXCEPT ![c] = "fallback"]
    /\ polls' = [polls EXCEPT ![c] = 0]
    /\ Goto(c, "t175")
    /\ UNCHANGED <<pool_lock, is_loaded, op, inst, li, outcome, released>>
    /\ UNCHANGED <<loadVars, callVars, obsVars, acc>>

(***************************************************************************)
(* WhisperPool.transcribe after the acquire, and _release_instance         *)
(***************************************************************************)
\* lines 175-176: if instance is None: raise RuntimeError
TranscribeCheckInstance(c) ==
    /\ pc[c] = "t175"
    /\ IF inst[c] = None
         THEN /\ outcome' = [outcome EXCEPT ![c] = "no_instance"]
              /\ Goto(c, "done")
         ELSE /\ Goto(c, "t181")
              /\ UNCHANGED outcome
    /\ UNCHANGED <<instances, pool_lock, is_loaded, op, inst, li, polls, via,
                   released>>
    /\ UNCHANGED <<loadVars, callVars, obsVars, acc>>

\* lines 181-194: the engine call returns the segments, the text is joined,
\* and `instance.total_inferences += 1` reads the count
EngineReturns(c) ==
    /\ pc[c] = "t181"
    /\ acc' = [acc EXCEPT ![c] = instances[inst[c]].total_inferences]
    /\ Goto(c, "t194")
    /\ UNCHANGED <<instances, pool_lock, is_loaded, op, inst, li, polls, via,
                   outcome, released>>
    /\ UNCHANGED <<loadVars, callVars, obsVars>>

\* mutant: the count that was read is not written back
CountInferenceLost(c) ==
    /\ pc[c] = "t194"
    /\ acc' = [acc EXCEPT ![c] = 0]
    /\ outcome' = [outcome EXCEPT ![c] = "text"]
    /\ Goto(c, "t156")
    /\ UNCHANGED <<instances, pool_lock, is_loaded, op, inst, li, polls, via,
                   released>>
    /\ UNCHANGED <<loadVars, callVars, obsVars>>

\* lines 194-197: `instance.total_inferences += 1` writes the count it read,
\* plus one; return text (through the finally block)
CountInference(c) ==
    /\ pc[c] = "t194"
    /\ instances' = [instances EXCEPT
                        ![inst[c]].total_inferences = acc[c] + 1]
    /\ acc' = [acc EXCEPT ![c] = 0]
    /\ outcome' = [outcome EXCEPT ![c] = "text"]
    /\ Goto(c, "t156")
    /\ UNCHANGED <<pool_lock, is_loaded, op, inst, li, polls, via, released>>
    /\ UNCHANGED <<loadVars, callVars, obsVars>>

\* mutant: the release is not in a finally block, an engine error skips it
EngineErrorSkipsRelease == "done"

\* where control goes when the engine call raises: the finally block, line 200
AfterEngineError == "t156"

\* lines 181-190: the engine call raises
EngineRaises(c) ==
    /\ pc[c] = "t181"
    /\ outcome' = [outcome EXCEPT ![c] = "engine_error"]
    /\ Goto(c, AfterEngineError)
    /\ UNCHANGED <<instances, pool_lock, is_loaded, op, inst, li, polls, via,
                   released>>
    /\ UNCHANGED <<loadVars, callVars, obsVars, acc>>

\* mutant: _release_instance releases the lock first and clears busy later
ReleaseUnlocksFirst(c) ==
    /\ pc[c] = "t156"
    /\ instances' = [instances EXCEPT ![inst[c]].lock = Free]
    /\ Goto(c, "t157")
    /\ UNCHANGED <<pool_lock, is_loaded, op, inst, li, polls, via, outcome,
                   released>>
    /\ UNCHANGED <<loadVars, callVars, obsVars, acc>>

\* _release_instance, line 156: instance.busy = False
ReleaseClearBusy(c) ==
    /\ pc[c] = "t156"
    /\ instances' = [instances EXCEPT ![inst[c]].busy = FALSE]
    /\ Goto(c, "t157")
    /\ UNCHANGED <<pool_lock, is_loaded, op, inst, li, polls, via, outcome,
                   released>>
    /\ UNCHANGED <<loadVars, callVars, obsVars, acc>>

\* mutant: _release_instance clears busy but never releases the lock
ReleaseWithoutUnlock(c) ==
    /\ pc[c] = "t157"
    /\ released' = [released EXCEPT ![c] = @ + 1]
    /\ Goto(c, "done")
    /\ UNCHANGED <<instances, pool_lock, is_loaded, op, inst, li, polls, via,
                   outcome>>
    /\ UNCHANGED <<loadVars, callVars, obsVars, acc>>

\* _release_instance, line 157: instance.lock.release(); transcribe returns
ReleaseLock(c) ==
    /\ pc[c] = "t157"
    /\ instances' = [instances EXCEPT ![inst[c]].lock = Free]
    /\ released' = [released EXCEPT ![c] = @ + 1]
    /\ Goto(c, "done")
    /\ UNCHANGED <<pool_lock, is_loaded, op, inst, li, polls, via, outcome>>
    /\ UNCHANGED <<loadVars, callVars, obsVars, acc>>

CallerStep(c) ==
    \/ CallLoad(c)
    \/ CallTranscribe(c)
    \/ LoadCheckLoaded(c)
    \/ LoadAppend(c)
    \/ LoadFinish(c)
    \/ ScanBegin(c)
    \/ PollTimeout(c)
    \/ ScanStep(c)
    \/ ScanReturn(c)
    \/ FallbackAcquire(c)
    \/ FallbackReturn(c)
    \/ TranscribeCheckInstance(c)
    \/ EngineReturns(c)
    \/ CountInference(c)
    \/ EngineRaises(c)
    \/ ReleaseClearBusy(c)
    \/ ReleaseLock(c)

(***************************************************************************)
(* Bounds and inputs of the handler model.                                 *)
(***************************************************************************)
\* CallState objects ever created
MaxObjs == 1
\* conversation turns after which no new stream start or speech arrives
MaxHistory == 3

\* live stream connections, each with its own TwilioMediaHandler
Handlers == {1, 2}
CallSids == {"CA1", "CA2"}
StreamSids == {"MZ1", "MZ2"}
NoSid == ""
\* the carrier gives every stream connection its own stream identifier
StreamOf(h) == IF h = 1 THEN "MZ1" ELSE "MZ2"

\* twilio_ws.py lines 38-39
SILENCE_DURATION_MS == 700
MIN_SPEECH_MS == 300
\* one step of the clock, in ms: two steps reach SILENCE_DURATION_MS exactly
TickMs == SILENCE_DURATION_MS \div 2
\* the oldest start of a silence timer that is told apart, and the reading of
\* the clock, in steps of TickMs: a timer started at OldestStart has run for
\* SILENCE_DURATION_MS
OldestStart == 1
now == OldestStart + SILENCE_DURATION_MS \div TickMs
\* ms of speech a media frame carries: one frame is exactly the minimum, which
\* line 193 does not accept, two frames are more than it
FrameMs == {MIN_SPEECH_MS}
\* 16 kHz, 16 bit: 32 bytes per ms (line 193)
BytesPerMs == 16 * 2
\* speech frames stop once the accumulator holds this many bytes
MaxSpeechLen == 2 * MIN_SPEECH_MS * BytesPerMs

\* callee numbers: one with an active row in phone_numbers, one with an
\* inactive row, one without a row
Numbers == {"active", "inactive", "unknown"}

\* database.get_config_for_call, lines 237-262: the row of the number if it
\* is active (WHERE ... AND p.is_active = 1), else None
get_config_for_call(to) == to = "active"

\* CallState(call_sid=..., twilio_number=...) with its dataclass defaults
NewCall(sid, to) ==
    [call_sid |-> sid, twilio_number |-> to,
     stream_sid |-> NoSid, status |-> "ringing",
     conversation_history |-> << >>, is_speaking |-> FALSE,
     answered_at |-> None, ended_at |-> None]

\* CallStateManager.__init__ and TwilioMediaHandler.__init__
CallInit ==
    /\ calls = << >>
    /\ reg_calls = [s \in CallSids |-> None]
    /\ stream_to_call = [s \in StreamSids |-> NoSid]
    /\ hpc = [h \in Handlers |-> "recv"]
    /\ call_state = [h \in Handlers |-> None]
    /\ stream_sid = [h \in Handlers |-> NoSid]
    /\ speech_len = [h \in Handlers |-> 0]
    /\ silence_start = [h \in Handlers |-> None]
    /\ is_user_speaking = [h \in Handlers |-> FALSE]
    /\ is_processing = [h \in Handlers |-> FALSE]
    /\ pending_interrupt = [h \in Handlers |-> FALSE]
    /\ ctx = [h \in Handlers |-> "none"]
    /\ logged = [h \in Handlers |-> "none"]
    /\ backlog = [h \in Handlers |-> 0]
    /\ late = [h \in Handlers |-> FALSE]

(***************************************************************************)
(* The event loop: a coroutine runs until it awaits.  A handler inside the *)
(* synchronous part of a handler call occupies the loop; the others act    *)
(* only when nobody does.                                                  *)
(***************************************************************************)
SyncPCs == {"stt", "chk1", "llm", "chk2", "tts"}
LoopFree == \A h \in Handlers : hpc[h] \notin SyncPCs

HGoto(h, l) == hpc' = [hpc EXCEPT ![h] = l]

\* the session object of handler h
Session(h) == calls[call_state[h]]

\* mutant: the entry is inserted at the front
AddMessageFront(hist, entry) == <<entry>> \o hist

\* conversation_history.append(entry), call_state.py lines 63 and 73
AddMessage(hist, entry) == Append(hist, entry)

UserEntry == [role |-> "user", content |-> "utterance"]
\* k: "greeting" or "reply"
AssistantEntry(k) == [role |-> "assistant", content |-> k]

\* CallState.add_user_message / add_assistant_message on object o
AddToHistory(o, entry) ==
    calls' = [calls EXCEPT
        ![o].conversation_history = AddMessage(@, entry)]

\* Time is measured from the present: the clock reads `now`, and a tick of
\* TickMs moves the start of every running silence timer one step into the
\* past.  handle_media reads the clock only as the time since silence_start
\* compared with SILENCE_DURATION_MS (line 191), so starts at or before
\* OldestStart are not told apart.
Tick ==
    /\ LoopFree
    /\ \E h \in Handlers : silence_start[h] # None /\ silence_start[h] > OldestStart
    /\ silence_start' =
         [h \in Handlers |->
            IF silence_start[h] = None \/ silence_start[h] = OldestStart
              THEN silence_start[h] ELSE silence_start[h] - 1]
    /\ UNCHANGED <<calls, reg_calls, stream_to_call, hpc, call_state,
                   stream_sid, speech_len, is_user_speaking, is_processing,
                   pending_interrupt, ctx>>
    /\ UNCHANGED <<loadVars, poolVars, obsVars, logged, backlog, late>>

(***************************************************************************)
(* CallStateManager (src/src/call_state.py)                                *)
(***************************************************************************)
\* create_call: a new CallState object replaces whatever _calls held for sid
CreateCall(cs, sid, to) == Append(cs, NewCall(sid, to))

\* end_call on the heap cs, lines 136-139: the registered call, if any, is
\* marked completed and its end time is stamped
EndCall(cs, sid) ==
    IF reg_calls[sid] = None THEN cs
    ELSE [cs EXCEPT ![reg_calls[sid]].status = "completed",
                    ![reg_calls[sid]].ended_at = utc]

\* twilio_handlers.incoming_call, lines 77-126: what the webhook answers, the
\* TwiML that says a rejection and hangs up or the TwiML that connects the
\* call to the media stream
IncomingCallResponse(to) ==
    IF get_config_for_call(to) THEN "connect" ELSE "say"

\* twilio_handlers.incoming_call, lines 76-98: without a configuration the
\* webhook returns; otherwise it creates the session
IncomingCall(sid, to) ==
    /\ LoopFree
    /\ IF get_config_for_call(to)
         THEN /\ Len(calls) < MaxObjs
              /\ calls' = CreateCall(calls, sid, to)
              /\ reg_calls' = [reg_calls EXCEPT ![sid] = Len(calls) + 1]
         ELSE UNCHANGED <<calls, reg_calls>>
    /\ UNCHANGED <<stream_to_call, handlerVars>>
    /\ UNCHANGED <<loadVars, poolVars, obsVars, logged, backlog, late>>

\* twilio_handlers.call_status, lines 147-152: CallStatus == "completed"
CallStatusCompleted(sid) ==
    /\ LoopFree
    /\ calls' = EndCall(calls, sid)
    /\ UNCHANGED <<reg_calls, stream_to_call, handlerVars>>
    /\ UNCHANGED <<loadVars, poolVars, obsVars, logged, backlog, late>>

\* remove_call, lines 143-148, called by the post-call processing, which runs
\* on a call that has ended
RemoveCall(sid) ==
    /\ LoopFree
    /\ reg_calls[sid] # None
    /\ calls[reg_calls[sid]].status = "completed"
    /\ reg_calls' = [reg_calls EXCEPT ![sid] = None]
    /\ stream_to_call' =
         LET ss == calls[reg_calls[sid]].stream_sid
         IN  IF ss # NoSid THEN [stream_to_call EXCEPT ![ss] = NoSid]
             ELSE stream_to_call
    /\ UNCHANGED <<calls, handlerVars>>
    /\ UNCHANGED <<loadVars, poolVars, obsVars, logged, backlog, late>>

(***************************************************************************)
(* TwilioMediaHandler (src/src/twilio_ws.py)                               *)
(***************************************************************************)
\* mutant: the run ends without the finally clause of line 262
EndRunKeepsGuard(h, line) ==
    /\ logged' = [logged EXCEPT ![h] = line]
    /\ late' = [late EXCEPT ![h] = FALSE]
    /\ UNCHANGED is_processing
    /\ speech_len' = [speech_len EXCEPT ![h] = 0]
    /\ silence_start' = [silence_start EXCEPT ![h] = None]
    /\ is_user_speaking' = [is_user_speaking EXCEPT ![h] = FALSE]
    /\ HGoto(h, "recv")

\* reset_audio_state, with the end of process_speech (finally, line 262) when
\* a pipeline run ends
EndRun(h, line) ==
    /\ logged' = [logged EXCEPT ![h] = line]
    /\ late' = [late EXCEPT ![h] = FALSE]
    /\ is_processing' = [is_processing EXCEPT ![h] = FALSE]
    /\ speech_len' = [speech_len EXCEPT ![h] = 0]
    /\ silence_start' = [silence_start EXCEPT ![h] = None]
    /\ is_user_speaking' = [is_user_speaking EXCEPT ![h] = FALSE]
    /\ HGoto(h, "recv")

\* handle_start, lines 97-123, up to the synthesis of the greeting in speak():
\* get or create the call (with the twilio_number of the custom parameters),
\* register the stream, mark it in progress; load_business_config, lines
\* 125-142, only logs when the number has no configuration; and speak() sets
\* is_speaking (line 269).  The carrier sends one start event on a stream
\* connection.
HandleStart(h, sid, ss, to) ==
    /\ LoopFree
    /\ hpc[h] = "recv"
    /\ call_state[h] = None
    /\ IF reg_calls[sid] = None
         THEN Len(calls) < MaxObjs
         ELSE Len(calls[reg_calls[sid]].conversation_history) < MaxHistory
    /\ LET fresh == reg_calls[sid] = None
           o == IF fresh THEN Len(calls) + 1 ELSE reg_calls[sid]
           cs == IF fresh THEN CreateCall(calls, sid, to) ELSE calls
       IN  /\ calls' = [cs EXCEPT ![o].stream_sid = ss,
                                  ![o].status = "in_progress",
                                  ![o].answered_at = now,
                                  ![o].is_speaking = TRUE]
           /\ reg_calls' = [reg_calls EXCEPT ![sid] = o]
           /\ call_state' = [call_state EXCEPT ![h] = o]
    /\ stream_to_call' = [stream_to_call EXCEPT ![ss] = sid]
    /\ stream_sid' = [stream_sid EXCEPT ![h] = ss]
    /\ ctx' = [ctx EXCEPT ![h] = "greeting"]
    /\ HGoto(h, "tts")
    /\ UNCHANGED <<speech_len, silence_start, is_user_speaking,
                   is_processing, pending_interrupt>>
    /\ logged' = [logged EXCEPT ![h] = "none"]
    /\ UNCHANGED <<loadVars, poolVars, obsVars, backlog, late>>

\* handle_media, lines 161-168: no call state, a call that is not in
\* progress, or a frame without payload: return
MediaIgnored(h) ==
    /\ LoopFree
    /\ hpc[h] = "recv"
    /\ UNCHANGED <<calls, reg_calls, stream_to_call, handlerVars>>
    /\ logged' = [logged EXCEPT ![h] = "none"]
    /\ UNCHANGED <<loadVars, poolVars, obsVars, backlog, late>>

\* the frame is processed: lines 161-162 did not return
MediaAccepted(h) ==
    /\ call_state[h] # None
    /\ Session(h).status = "in_progress"

\* mutant: every speech frame counts as an interrupt
BargeInAlways(h) == TRUE

\* line 183: if self.call_state.is_speaking
BargeIn(h) == Session(h).is_speaking

\* handle_media, lines 176-184: a speech frame of ms milliseconds
\* mutant: a speech frame leaves the silence timer running
SilenceStartKept(h) == silence_start[h]

\* line 180: self.silence_start = None
SilenceStartOnSpeech(h) == None

MediaSpeech(h, ms) ==
    /\ LoopFree
    /\ hpc[h] = "recv"
    /\ MediaAccepted(h)
    /\ backlog[h] = 0
    /\ Len(Session(h).conversation_history) < MaxHistory
    /\ speech_len[h] + ms * BytesPerMs <= MaxSpeechLen
    /\ speech_len' = [speech_len EXCEPT ![h] = @ + ms * BytesPerMs]
    /\ silence_start' = [silence_start EXCEPT
                            ![h] = SilenceStartOnSpeech(h)]
    /\ is_user_speaking' = [is_user_speaking EXCEPT ![h] = TRUE]
    /\ pending_interrupt' = [pending_interrupt EXCEPT
                                ![h] = IF BargeIn(h) THEN TRUE ELSE @]
    /\ UNCHANGED <<calls, reg_calls, stream_to_call, hpc, call_state,
                   stream_sid, is_processing, ctx>>
    /\ logged' = [logged EXCEPT ![h] = "none"]
    /\ UNCHANGED <<loadVars, poolVars, obsVars, backlog, late>>

\* speech frames held by the websocket of one connection during a run
MaxBacklog == 1

\* the carrier sends a speech frame while a pipeline run is in flight: the
\* coroutine is inside handle_message (handle_connection, lines 67-68), so
\* the websocket keeps the frame until iter_text is resumed
FrameArrives(h) ==
    /\ is_processing[h]
    /\ backlog[h] < MaxBacklog
    /\ backlog' = [backlog EXCEPT ![h] = @ + 1]
    /\ UNCHANGED <<calls, reg_calls, stream_to_call, handlerVars, logged,
                   late>>
    /\ UNCHANGED <<loadVars, poolVars, obsVars>>

\* handle_connection, lines 67-68, and handle_media, lines 161-184: after the
\* run, iter_text yields the frame that arrived during it
MediaLate(h, ms) ==
    /\ LoopFree
    /\ hpc[h] = "recv"
    /\ backlog[h] > 0
    /\ backlog' = [backlog EXCEPT ![h] = @ - 1]
    /\ logged' = [logged EXCEPT ![h] = "none"]
    /\ IF MediaAccepted(h)
         THEN /\ Len(Session(h).conversation_history) < MaxHistory
              /\ speech_len[h] + ms * BytesPerMs <= MaxSpeechLen
              /\ speech_len' = [speech_len EXCEPT ![h] = @ + ms * BytesPerMs]
              /\ silence_start' = [silence_start EXCEPT ![h] = None]
              /\ is_user_speaking' = [is_user_speaking EXCEPT ![h] = TRUE]
              /\ pending_interrupt' = [pending_interrupt EXCEPT
                                          ![h] = IF BargeIn(h) THEN TRUE ELSE @]
              /\ late' = [late EXCEPT ![h] = TRUE]
              /\ UNCHANGED <<hpc, call_state, stream_sid, is_processing, ctx>>
         ELSE UNCHANGED <<handlerVars, late>>
    /\ UNCHANGED <<calls, reg_calls, stream_to_call>>
    /\ UNCHANGED <<loadVars, poolVars, obsVars>>

\* line 191: (time.time() - self.silence_start) * 1000 >= SILENCE_DURATION_MS
SilenceElapsed(h) ==
    (now - silence_start[h]) * TickMs >= SILENCE_DURATION_MS

\* line 193: len(self.speech_chunks) > MIN_SPEECH_MS * 32
EnoughSpeech(h) == speech_len[h] > MIN_SPEECH_MS * BytesPerMs

\* handle_media, lines 186-195: a silence frame; after enough silence the
\* utterance is handed to process_speech (lines 199-202) or dropped, and
\* reset_audio_state follows
MediaSilence(h) ==
    /\ LoopFree
    /\ hpc[h] = "recv"
    /\ MediaAccepted(h)
    /\ backlog[h] = 0
    /\ IF ~is_user_speaking[h]
         THEN UNCHANGED handlerVars
       ELSE IF silence_start[h] = None
         THEN /\ silence_start' = [silence_start EXCEPT ![h] = now]
              /\ UNCHANGED <<hpc, call_state, stream_sid, speech_len,
                             is_user_speaking, is_processing,
                             pending_interrupt, ctx>>
       ELSE IF ~SilenceElapsed(h)
         THEN UNCHANGED handlerVars
       ELSE IF EnoughSpeech(h) /\ ~is_processing[h]
         THEN /\ is_processing' = [is_processing EXCEPT ![h] = TRUE]
              /\ HGoto(h, "stt")
              /\ UNCHANGED <<call_state, stream_sid, speech_len,
                             silence_start, is_user_speaking,
                             pending_interrupt, ctx>>
         ELSE /\ speech_len' = [speech_len EXCEPT ![h] = 0]
              /\ silence_start' = [silence_start EXCEPT ![h] = None]
              /\ is_user_speaking' = [is_user_speaking EXCEPT ![h] = FALSE]
              /\ UNCHANGED <<hpc, call_state, stream_sid, is_processing,
                             pending_interrupt, ctx>>
    /\ UNCHANGED <<calls, reg_calls, stream_to_call>>
    /\ logged' = [logged EXCEPT ![h] = "none"]
    /\ late' = IF is_user_speaking[h] /\ silence_start[h] # None
                   /\ SilenceElapsed(h)
                   /\ ~(EnoughSpeech(h) /\ ~is_processing[h])
                 THEN [late EXCEPT ![h] = FALSE]
                 ELSE late
    /\ UNCHANGED <<loadVars, poolVars, obsVars, backlog>>

\* process_speech, lines 207-226: the transcription; a short text ends the
\* run, an exception ends it (line 259), otherwise the corrected text is
\* added to the conversation
\* mutant: the discarded text is added to the history all the same
DiscardRunAddsUser(h) ==
    /\ EndRun(h, "too short")
    /\ AddToHistory(call_state[h], UserEntry)

\* process_speech, lines 216-218: an empty or too short transcription returns
\* before add_user_message
DiscardRun(h) ==
    /\ EndRun(h, "too short")
    /\ UNCHANGED calls

Transcribe(h) ==
    /\ hpc[h] = "stt"
    /\ \E text \in {"", "text", "error"} :
         IF text = "text"
           THEN /\ AddToHistory(call_state[h], UserEntry)
                /\ HGoto(h, "chk1")
                /\ UNCHANGED <<speech_len, silence_start, is_user_speaking,
                               is_processing, logged,
                               late>>
           ELSE IF text = ""
             THEN DiscardRun(h)
             ELSE /\ EndRun(h, "error")
                  /\ UNCHANGED calls
    /\ UNCHANGED <<reg_calls, stream_to_call, call_state, stream_sid,
                   pending_interrupt, ctx>>
    /\ UNCHANGED <<loadVars, poolVars, obsVars, backlog>>

\* mutant: the checkpoint before the LLM lets a pending interrupt through
CheckInterrupt1Passes(h) ==
    /\ hpc[h] = "chk1"
    /\ HGoto(h, "llm")
    /\ UNCHANGED <<speech_len, silence_start, is_user_speaking,
                   is_processing, pending_interrupt, logged, late>>
    /\ UNCHANGED <<calls, reg_calls, stream_to_call, call_state,
                   stream_sid, ctx>>
    /\ UNCHANGED <<loadVars, poolVars, obsVars, backlog>>

\* process_speech, lines 229-232: check for interrupt before LLM
CheckInterrupt1(h) ==
    /\ hpc[h] = "chk1"
    /\ IF pending_interrupt[h]
         THEN /\ pending_interrupt' = [pending_interrupt EXCEPT ![h] = FALSE]
              /\ EndRun(h, "interrupt")
         ELSE /\ HGoto(h, "llm")
              /\ UNCHANGED <<speech_len, silence_start, is_user_speaking,
                             is_processing, pending_interrupt, logged,
                               late>>
    /\ UNCHANGED <<calls, reg_calls, stream_to_call, call_state,
                   stream_sid, ctx>>
    /\ UNCHANGED <<loadVars, poolVars, obsVars, backlog>>

\* process_speech, lines 236-244: llm.generate returns or raises
Generate(h) ==
    /\ hpc[h] = "llm"
    /\ \E ok \in BOOLEAN :
         IF ok
           THEN /\ HGoto(h, "chk2")
                /\ UNCHANGED <<speech_len, silence_start, is_user_speaking,
                               is_processing, logged,
                               late>>
           ELSE EndRun(h, "error")
    /\ UNCHANGED <<calls, reg_calls, stream_to_call, call_state,
                   stream_sid, pending_interrupt, ctx>>
    /\ UNCHANGED <<loadVars, poolVars, obsVars, backlog>>

\* process_speech, lines 247-253: check for interrupt before TTS, then
\* speak(response), which sets is_speaking (line 269)
CheckInterrupt2(h) ==
    /\ hpc[h] = "chk2"
    /\ IF pending_interrupt[h]
         THEN /\ pending_interrupt' = [pending_interrupt EXCEPT ![h] = FALSE]
              /\ EndRun(h, "interrupt")
              /\ UNCHANGED <<calls, ctx>>
         ELSE /\ calls' = [calls EXCEPT ![call_state[h]].is_speaking = TRUE]
              /\ ctx' = [ctx EXCEPT ![h] = "reply"]
              /\ HGoto(h, "tts")
              /\ UNCHANGED <<speech_len, silence_start, is_user_speaking,
                             is_processing, pending_interrupt, logged,
                               late>>
    /\ UNCHANGED <<reg_calls, stream_to_call, call_state, stream_sid>>
    /\ UNCHANGED <<loadVars, poolVars, obsVars, backlog>>

\* speak() returns to its caller: send_greeting (line 157) or process_speech
\* (lines 254-262) adds the assistant message; failed: speak caught an
\* exception and cleared is_speaking (lines 287-289)
SpeakReturns(h, failed) ==
    /\ LET o == call_state[h]
           cs == IF failed THEN [calls EXCEPT ![o].is_speaking = FALSE]
                 ELSE calls
       IN  calls' = [cs EXCEPT ![o].conversation_history =
                         AddMessage(@, AssistantEntry(ctx[h]))]
    /\ IF ctx[h] = "reply"
         THEN EndRun(h, IF failed THEN "tts error" ELSE "total")
         ELSE /\ HGoto(h, "recv")
              /\ UNCHANGED <<speech_len, silence_start, is_user_speaking,
                             is_processing, logged,
                               late>>
    /\ ctx' = [ctx EXCEPT ![h] = "none"]
    /\ UNCHANGED <<reg_calls, stream_to_call, call_state, stream_sid,
                   pending_interrupt>>

\* speak, lines 274-282: tts.synthesize_to_bytes and the encoding return, and
\* send_audio awaits the websocket; or they raise
Synthesize(h) ==
    /\ hpc[h] = "tts"
    /\ \/ /\ HGoto(h, "send_audio")
          /\ UNCHANGED <<calls, reg_calls, stream_to_call, call_state,
                         stream_sid, speech_len, silence_start,
                         is_user_speaking, is_processing, pending_interrupt,
                         ctx, logged,
                               late>>
       \/ SpeakReturns(h, TRUE)
    /\ UNCHANGED <<loadVars, poolVars, obsVars, backlog>>

\* send_audio, line 303: the media message is sent and send_mark awaits the
\* websocket; or the send raises
SendAudio(h) ==
    /\ LoopFree
    /\ hpc[h] = "send_audio"
    /\ \/ /\ HGoto(h, "send_mark")
          /\ UNCHANGED <<calls, reg_calls, stream_to_call, call_state,
                         stream_sid, speech_len, silence_start,
                         is_user_speaking, is_processing, pending_interrupt,
                         ctx, logged,
                               late>>
       \/ SpeakReturns(h, TRUE)
    /\ UNCHANGED <<loadVars, poolVars, obsVars, backlog>>

\* send_mark, line 317: the mark is sent, or the send raises
SendMark(h) ==
    /\ LoopFree
    /\ hpc[h] = "send_mark"
    /\ \/ SpeakReturns(h, FALSE)
       \/ SpeakReturns(h, TRUE)
    /\ UNCHANGED <<loadVars, poolVars, obsVars, backlog>>

\* handle_mark, lines 319-326
HandleMark(h, name) ==
    /\ LoopFree
    /\ hpc[h] = "recv"
    /\ IF name = "speech_end" /\ call_state[h] # None
         THEN calls' = [calls EXCEPT ![call_state[h]].is_speaking = FALSE]
         ELSE UNCHANGED calls
    /\ UNCHANGED <<reg_calls, stream_to_call, handlerVars>>
    /\ logged' = [logged EXCEPT ![h] = "none"]
    /\ UNCHANGED <<loadVars, poolVars, obsVars, backlog, late>>

\* handle_stop, lines 328-333 (line 330 logs "Stream stopping")
HandleStop(h) ==
    /\ LoopFree
    /\ hpc[h] = "recv"
    /\ IF call_state[h] # None
         THEN calls' = [calls EXCEPT ![call_state[h]].status = "completed"]
         ELSE UNCHANGED calls
    /\ UNCHANGED <<reg_calls, stream_to_call, handlerVars>>
    /\ logged' = [logged EXCEPT ![h] = "stopping"]
    /\ UNCHANGED <<loadVars, poolVars, obsVars, backlog, late>>

\* the websocket closes: handle_connection, lines 70-75, and cleanup
Disconnect(h) ==
    /\ LoopFree
    /\ hpc[h] = "recv"
    /\ IF call_state[h] # None
         THEN calls' = EndCall(calls, Session(h).call_sid)
         ELSE UNCHANGED calls
    /\ HGoto(h, "closed")
    /\ UNCHANGED <<reg_calls, stream_to_call, call_state, stream_sid,
                   speech_len, silence_start, is_user_speaking, is_processing,
                   pending_interrupt, ctx>>
    /\ logged' = [logged EXCEPT ![h] = "none"]
    /\ UNCHANGED <<loadVars, poolVars, obsVars, backlog, late>>

\* handle_message, lines 79-95: an event of no known type falls through
UnknownEvent(h) ==
    /\ LoopFree
    /\ hpc[h] = "recv"
    /\ logged' = [logged EXCEPT ![h] = "none"]
    /\ UNCHANGED <<calls, reg_calls, stream_to_call, handlerVars>>
    /\ UNCHANGED <<loadVars, poolVars, obsVars, backlog, late>>

\* handle_media, line 171, on a frame whose payload is not base64:
\* mulaw_to_pcm16k raises out of handle_media and handle_message into
\* handle_connection, lines 72-75, which logs the error and runs cleanup
MediaUndecodable(h) ==
    /\ MediaAccepted(h)
    /\ Disconnect(h)

HandlerStep(h) ==
    \/ \E sid \in CallSids, to \in Numbers : HandleStart(h, sid, StreamOf(h), to)
    \/ UnknownEvent(h)
    \/ MediaIgnored(h)
    \/ MediaUndecodable(h)
    \/ \E ms \in FrameMs : MediaSpeech(h, ms)
    \/ MediaSilence(h)
    \/ Transcribe(h)
    \/ CheckInterrupt1(h)
    \/ Generate(h)
    \/ CheckInterrupt2(h)
    \/ Synthesize(h)
    \/ SendAudio(h)
    \/ SendMark(h)
    \/ \E name \in {"speech_end", "other"} : HandleMark(h, name)
    \/ HandleStop(h)
    \/ Disconnect(h)

CallNext ==
    \/ Tick
    \/ \E sid \in CallSids, to \in Numbers : IncomingCall(sid, to)
    \/ \E sid \in CallSids : CallStatusCompleted(sid)
    \/ \E sid \in CallSids : RemoveCall(sid)
    \/ \E h \in Handlers : HandlerStep(h)

(***************************************************************************)
(* The registry as its callers use it: any sequence of calls of the        *)
(* CallStateManager methods, of handle_start's use of them and of the      *)
(* call-status webhook, each recorded in `ret` with the error it raised.   *)
(***************************************************************************)
\* CallState objects created in a sequence of registry calls
MaxRegObjs == 2
\* the number of the sessions created there: the registry reads no number
RegNumber == "active"
\* last value of the utcnow clock
MaxUtc == 2

\* get_call, lines 115-117
get_call(sid) == reg_calls[sid]

\* get_call_by_stream, lines 119-124
get_call_by_stream(ss) ==
    IF stream_to_call[ss] # NoSid THEN get_call(stream_to_call[ss]) ELSE None

Returned(o, sid, ss, e) == [op |-> o, sid |-> sid, ss |-> ss, err |-> e]

\* datetime.utcnow() advances
RegTick ==
    /\ utc < MaxUtc
    /\ utc' = utc + 1
    /\ UNCHANGED <<ret, callVars, poolVars, loadVars>>

\* create_call(call_sid, ...), lines 104-113
RegCreate(sid) ==
    /\ Len(calls) < MaxRegObjs
    /\ calls' = CreateCall(calls, sid, RegNumber)
    /\ reg_calls' = [reg_calls EXCEPT ![sid] = Len(calls) + 1]
    /\ ret' = Returned("create", sid, NoSid, "none")
    /\ UNCHANGED <<stream_to_call, handlerVars, logged, backlog, late, utc,
                   poolVars, loadVars>>

\* register_stream(stream_sid, call_sid), lines 126-132
RegisterStream(ss, sid) ==
    /\ stream_to_call' = [stream_to_call EXCEPT ![ss] = sid]
    /\ calls' = IF get_call(sid) # None
                  THEN [calls EXCEPT ![get_call(sid)].stream_sid = ss]
                  ELSE calls

RegBind(ss, sid) ==
    /\ RegisterStream(ss, sid)
    /\ ret' = Returned("bind", sid, ss, "none")
    /\ UNCHANGED <<reg_calls, handlerVars, logged, backlog, late, utc,
                   poolVars, loadVars>>

\* handle_start, lines 107-117, on the registry: get or create the call,
\* register the stream, mark the call in progress and stamp answered_at
RegStart(ss, sid) ==
    /\ get_call(sid) = None => Len(calls) < MaxRegObjs
    /\ LET fresh == get_call(sid) = None
           o == IF fresh THEN Len(calls) + 1 ELSE get_call(sid)
           cs == IF fresh THEN CreateCall(calls, sid, RegNumber) ELSE calls
       IN  /\ calls' = [cs EXCEPT ![o].stream_sid = ss,
                                  ![o].status = "in_progress",
                                  ![o].answered_at = now]
           /\ reg_calls' = [reg_calls EXCEPT ![sid] = o]
    /\ stream_to_call' = [stream_to_call EXCEPT ![ss] = sid]
    /\ ret' = Returned("start", sid, ss, "none")
    /\ UNCHANGED <<handlerVars, logged, backlog, late, utc,
                   poolVars, loadVars>>

\* get_duration_seconds, lines 81-86, as end_call's log line evaluates it
\* after ended_at is stamped: ended_at is a datetime and answered_at, set by
\* handle_start line 117, a float of time.time(); their difference raises
DurationError(o) ==
    IF calls[o].answered_at # None THEN "TypeError" ELSE "none"

\* end_call(call_sid), lines 134-141
RegEnd(sid) ==
    /\ calls' = EndCall(calls, sid)
    /\ ret' = Returned("end", sid, NoSid,
                       IF get_call(sid) # None
                         THEN DurationError(get_call(sid)) ELSE "none")
    /\ UNCHANGED <<reg_calls, stream_to_call, handlerVars, logged, backlog, late, utc,
                   poolVars, loadVars>>

\* remove_call(call_sid), lines 143-148
RegRemove(sid) ==
    /\ reg_calls' = [reg_calls EXCEPT ![sid] = None]
    /\ stream_to_call' =
         IF get_call(sid) # None /\ calls[get_call(sid)].stream_sid # NoSid
           THEN [stream_to_call EXCEPT
                    ![calls[get_call(sid)].stream_sid] = NoSid]
           ELSE stream_to_call
    /\ ret' = Returned("remove", sid, NoSid, "none")
    /\ UNCHANGED <<calls, handlerVars, logged, backlog, late, utc,
                   poolVars, loadVars>>

\* twilio_handlers.call_status, lines 154-158, CallStatus in {"failed", "busy",
\* "no-answer"}: the form parameter CallStatus (a str, line 132) shadows the
\* enum imported at line 12, so `CallStatus.FAILED` raises AttributeError
\* before the status is set and before remove_call
CallStatusFailed(sid) ==
    /\ ret' = Returned("status_failed", sid, NoSid,
                       IF get_call(sid) # None
                         THEN "AttributeError" ELSE "none")
    /\ UNCHANGED <<callVars, utc, poolVars, loadVars>>

\* twilio_handlers.incoming_call, lines 93-98, delivered for any call
\* identifier, one that has a session included: create_call on the event loop
WebhookCreate(sid) ==
    /\ LoopFree
    /\ RegCreate(sid)

\* one stream connection, the webhooks and the post-call removal
SoloNext ==
    \/ Tick
    \/ \E sid \in CallSids : WebhookCreate(sid)
    \/ \E sid \in CallSids : CallStatusCompleted(sid)
    \/ \E sid \in CallSids : RemoveCall(sid)
    \/ HandlerStep(1)
    \/ FrameArrives(1)
    \/ \E ms \in FrameMs : MediaLate(1, ms)

RegNext ==
    \/ RegTick
    \/ \E sid \in CallSids : RegCreate(sid)
    \/ \E ss \in StreamSids, sid \in CallSids : RegBind(ss, sid)
    \/ \E ss \in StreamSids, sid \in CallSids : RegStart(ss, sid)
    \/ \E sid \in CallSids : RegEnd(sid)
    \/ \E sid \in CallSids : RegRemove(sid)
    \/ \E sid \in CallSids : CallStatusFailed(sid)

(***************************************************************************)
(* The module-level loaders of stt.py (Parakeet) and stt_whisper.py (the   *)
(* pool), called one after another: by the lifespan at startup and by the  *)
(* handlers on the event loop.  A load of a model may raise.               *)
(***************************************************************************)
\* calls of the module in one behaviour
MaxLoadCalls == 6

\* settings.stt_backend, main.py lines 24-27
Backends == {"whisper", "parakeet"}

\* how the load of the model ends: it returns, it raises before the global is
\* assigned (stt.py line 31), or it raises after (stt.py line 32,
\* stt_whisper.py line 328)
LoadOutcomes(b) ==
    IF b = "parakeet" THEN {"ok", "raise_before", "raise_after"}
    ELSE {"ok", "raise_after"}

\* mutant: the loader never finds a loaded instance
AlreadyLoadedNever == FALSE

\* stt.py line 24: if _model is not None; stt_whisper.py line 319: if _pool
\* is not None
AlreadyLoaded == g_model # None

\* the body of load_model after the check: the new value of the global, of
\* the counters and of the pool's _is_loaded, and what the call returns
LoadBody(out) ==
    [model  |-> IF out = "raise_before" THEN g_model ELSE made + 1,
     made   |-> IF out = "raise_before" THEN made ELSE made + 1,
     loads  |-> IF out = "ok" \/ (backend = "parakeet" /\ out = "raise_after")
                  THEN loads + 1 ELSE loads,
     loaded |-> IF backend = "whisper" /\ out = "ok" THEN TRUE ELSE g_loaded,
     raised |-> out # "ok",
     val    |-> IF out = "ok" THEN made + 1 ELSE None]

\* load_model as its caller sees it: stt.py lines 20-35, stt_whisper.py lines
\* 310-329
LoadModelResult(out) ==
    IF AlreadyLoaded
      THEN [model |-> g_model, made |-> made, loads |-> loads,
            loaded |-> g_loaded, raised |-> FALSE, val |-> g_model]
      ELSE LoadBody(out)

\* a call of load_model()
LoadModel(out) ==
    /\ ncalls < MaxLoadCalls
    /\ out \in LoadOutcomes(backend)
    /\ LET r == LoadModelResult(out)
       IN  /\ g_model' = r.model
           /\ made' = r.made
           /\ loads' = r.loads
           /\ g_loaded' = r.loaded
           /\ lret' = [op |-> "load_model", raised |-> r.raised,
                       val |-> r.val]
    /\ ncalls' = ncalls + 1
    /\ UNCHANGED <<backend, g_warmed>>
    /\ UNCHANGED <<poolVars, callVars, obsVars>>

\* a call of warmup(): stt.py lines 38-75 (load_model() when no model is
\* passed, the runs, then _is_warmed_up = True); stt_whisper.py lines 332-337
\* with WhisperPool.warmup, lines 89-126 (load_model() when there is no pool,
\* self.load() when the pool is not loaded, return when warmed up, the runs,
\* then _is_warmed_up = True).  A load or a run may raise.
Warmup(out, runs_ok) ==
    /\ ncalls < MaxLoadCalls
    /\ out \in LoadOutcomes(backend)
    /\ LET r == LoadModelResult(out)
           \* stt_whisper: load() of a pool that load_model left unloaded
           reload == backend = "whisper" /\ ~r.raised /\ ~r.loaded
           raised == r.raised \/ (reload /\ out # "ok")
           done == ~raised /\ (runs_ok \/ (backend = "whisper" /\ g_warmed))
       IN  /\ g_model' = r.model
           /\ made' = r.made
           /\ loads' = IF reload /\ out = "ok" THEN r.loads + 1 ELSE r.loads
           /\ g_loaded' = IF reload /\ out = "ok" THEN TRUE ELSE r.loaded
           /\ g_warmed' = IF done THEN TRUE ELSE g_warmed
           /\ lret' = [op |-> "warmup", raised |-> ~done, val |-> None]
    /\ ncalls' = ncalls + 1
    /\ UNCHANGED backend
    /\ UNCHANGED <<poolVars, callVars, obsVars>>

\* a call of transcribe(audio_path): stt.py lines 78-103 (load_model() when
\* there is no model, then the inference); stt_whisper.py lines 340-345 with
\* WhisperPool.transcribe, lines 159-200 (self.load() when the pool is not
\* loaded, then the inference).  The flag of the warm-up is read, not written.
TranscribeFile(out, run_ok) ==
    /\ ncalls < MaxLoadCalls
    /\ out \in LoadOutcomes(backend)
    /\ LET r == LoadModelResult(out)
           reload == backend = "whisper" /\ ~r.raised /\ ~r.loaded
           raised == r.raised \/ (reload /\ out # "ok")
       IN  /\ g_model' = r.model
           /\ made' = r.made
           /\ loads' = IF reload /\ out = "ok" THEN r.loads + 1 ELSE r.loads
           /\ g_loaded' = IF reload /\ out = "ok" THEN TRUE ELSE r.loaded
           /\ lret' = [op |-> "transcribe", raised |-> raised \/ ~run_ok,
                       val |-> None]
    /\ ncalls' = ncalls + 1
    /\ UNCHANGED <<backend, g_warmed>>
    /\ UNCHANGED <<poolVars, callVars, obsVars>>

LoadNext ==
    \/ \E out \in {"ok", "raise_before", "raise_after"} : LoadModel(out)
    \/ \E out \in {"ok", "raise_before", "raise_after"}, run_ok \in BOOLEAN :
          TranscribeFile(out, run_ok)
    \/ \E out \in {"ok", "raise_before", "raise_after"}, runs_ok \in BOOLEAN :
          Warmup(out, runs_ok)

(***************************************************************************)
(* Specifications.                                                         *)
(***************************************************************************)
\* the clock of datetime.utcnow() and the record of the last registry call
NoCall == [op |-> "none", sid |-> NoSid, ss |-> NoSid, err |-> "none"]
ObsInit ==
    /\ utc = 1
    /\ ret = NoCall

\* the stt module as imported: nothing loaded, nothing warmed up
ModInit(b) ==
    /\ backend = b
    /\ g_model = None
    /\ made = 0
    /\ loads = 0
    /\ g_loaded = FALSE
    /\ g_warmed = FALSE
    /\ lret = [op |-> "none", raised |-> FALSE, val |-> None]
    /\ ncalls = 0

Init == PoolInit /\ CallInit /\ ObsInit /\ ModInit("whisper")

\* either backend may be configured
LoadInit ==
    PoolInit /\ CallInit /\ ObsInit /\ \E b \in Backends : ModInit(b)

PoolNext == \E c \in Callers : CallerStep(c)

\* no scan of another caller is under way
QuietFor(c) == pool_lock \in {Free, c}

\* a blocking acquire of instances[0] that does not fall into a scan
QuietFallbackAcquire(c) == QuietFor(c) /\ FallbackAcquire(c)

\* a release that does not fall into a scan
QuietReleaseLock(c) == QuietFor(c) /\ ReleaseLock(c)

\* the callers of the pool, scheduled so that nobody else acquires or
\* releases a worker while a scan (lines 138-142) is under way
QuietNext ==
    \E c \in Callers :
        \/ CallLoad(c)
        \/ CallTranscribe(c)
        \/ LoadCheckLoaded(c)
        \/ LoadAppend(c)
        \/ LoadFinish(c)
        \/ ScanBegin(c)
        \/ PollTimeout(c)
        \/ ScanStep(c)
        \/ ScanReturn(c)
        \/ QuietFallbackAcquire(c)
        \/ FallbackReturn(c)
        \/ TranscribeCheckInstance(c)
        \/ EngineReturns(c)
        \/ CountInference(c)
        \/ EngineRaises(c)
        \/ ReleaseClearBusy(c)
        \/ QuietReleaseLock(c)

\* the pool under concurrent callers whose scans are not disturbed
QuietScanSpec == Init /\ [][QuietNext]_vars

\* the pool under concurrent callers
PoolSpec == Init /\ [][PoolNext]_vars

\* some thread that is not blocked keeps running, and every engine call
\* terminates (it returns or raises)
PoolLiveSpec == PoolSpec /\ WF_vars(PoolNext)

\* the handlers, the webhooks and the registry on one event loop
CallSpec == Init /\ [][CallNext]_vars

\* the registry under any sequence of calls
RegistrySpec == Init /\ [][RegNext]_vars

\* one stream connection with webhooks that repeat
SoloSpec == Init /\ [][SoloNext]_vars

\* the loaders of the stt module, called in any order
LoadSpec == LoadInit /\ [][LoadNext]_vars

Next == PoolNext \/ QuietNext \/ CallNext \/ RegNext \/ SoloNext \/ LoadNext

Spec == Init /\ [][Next]_vars

(***************************************************************************)
(* Properties of the pool.                                                 *)
(***************************************************************************)
Workers == 1..Len(instances)
BusyCount == Cardinality({i \in Workers : instances[i].busy})
Holders == {c \in Callers : Held(c)}
AllTranscribed ==
    \A c \in Callers : op[c] = "transcribe" /\ pc[c] = "done"

\* C1: no worker is held by two callers at once: two callers that are both
\* between their acquire (by the scan or by the fallback) and their release
\* hold different workers, and each holds the lock of the worker it uses.
C1_MutualExclusion ==
    /\ \A c \in Callers :
            Held(c) => inst[c] \in Workers /\ instances[inst[c]].lock = c
    /\ \A c1, c2 \in Callers :
            (c1 # c2 /\ Held(c1) /\ Held(c2)) => inst[c1] # inst[c2]

\* every worker of a pool of the configured size is held, one of them by a
\* caller that came through the fallback, and one more caller waits on worker 0
C1_Witness ==
    /\ Len(instances) = NumInstances
    /\ \A i \in Workers : \E c \in Callers : pc[c] = "t181" /\ inst[c] = i
    /\ \E c \in Callers : pc[c] = "t181" /\ via[c] = "fallback"
    /\ \E c \in Callers : pc[c] = "g150"

\* C2: the number of busy workers is at most the configured worker count N
\* and at most the number of callers between acquire and release.
C2_BusyBound ==
    /\ BusyCount <= NumInstances
    /\ BusyCount <= Cardinality(Holders)

\* C3: every caller that issues a transcribe eventually acquires a worker and
\* completes; none waits forever in the polling loop or on worker 0.
C3_AllComplete ==
    \A c \in Callers :
        (op[c] = "transcribe") ~>
            (pc[c] = "done" /\ via[c] # "none" /\ released[c] = 1)

\* more callers than workers all transcribed on a pool of the configured
\* size, at least one of them after waiting on worker 0
C3_Witness ==
    /\ AllTranscribed
    /\ Len(instances) = NumInstances
    /\ Cardinality(Callers) > NumInstances
    /\ \E c \in Callers : via[c] = "fallback"
    /\ \A c \in Callers : outcome[c] = "text"

\* C4: a caller that acquired a worker releases it exactly once, on the
\* engine's return and on its error: when transcribe exits the worker is free
\* (busy false, lock released), the caller holds no lock afterwards, and a
\* lock is only ever released by the caller that holds it.
C4_ReleaseOnce ==
    /\ [](\A c \in Callers :
            /\ released[c] <= 1
            /\ (pc[c] = "done" /\ op[c] = "transcribe") =>
                   /\ released[c] = 1
                   /\ \A i \in Workers : instances[i].lock # c)
    /\ [][\A i \in Workers :
            (instances[i].lock # Free /\ instances'[i].lock # instances[i].lock)
              => LET h == instances[i].lock
                 IN  /\ pc[h] = "t157" /\ inst[h] = i /\ pc'[h] = "done"
                     /\ instances'[i].lock = Free
                     /\ ~instances'[i].busy]_poolVars

\* one caller's engine call raised and another's returned; both released
C4_Witness ==
    /\ \E c \in Callers :
          pc[c] = "done" /\ outcome[c] = "engine_error" /\ released[c] = 1
    /\ \E c \in Callers :
          pc[c] = "done" /\ outcome[c] = "text" /\ released[c] = 1

\* C5: exhaustion never fails a request: the acquire never returns None, so
\* transcribe never raises for lack of a worker, and a caller whose polling
\* timed out obtains worker 0 through the blocking wait.
C5_NeverNoWorker ==
    \A c \in Callers :
        /\ outcome[c] # "no_instance"
        /\ pc[c] = "t175" => inst[c] # None
        /\ (Held(c) /\ via[c] = "fallback") => instances[1].lock = c

\* a caller found every worker held in each of its polls, fell back to the
\* blocking wait and now holds worker 0
C5_Witness ==
    \E c \in Callers :
        /\ pc[c] = "g151"
        /\ polls[c] = MaxPolls
        /\ instances[1].lock = c
        /\ Len(instances) = NumInstances

\* C6: once the pool is loaded it has exactly the configured number of
\* workers, whatever load and transcribe calls are made and interleaved.
C6_FixedWorkerCount ==
    is_loaded => Len(instances) = NumInstances

(***************************************************************************)
(* Properties of the handlers and the call sessions.                       *)
(***************************************************************************)
Objects == 1..Len(calls)
\* the handlers with a pipeline run in flight on session object o
Running(o) == {h \in Handlers : call_state[h] = o /\ is_processing[h]}
\* a pipeline run of handler h ends in this step
RunEnds(h) == is_processing[h] /\ ~is_processing'[h]
\* the stages of speak(): synthesis and the two sends
SpeakPCs == {"tts", "send_audio", "send_mark"}
IsPrefix(s, t) == Len(s) <= Len(t) /\ SubSeq(t, 1, Len(s)) = s
Count(hist, r, n) ==
    Cardinality({i \in 1..n : hist[i].role = r /\ hist[i].content # "greeting"})

\* C7: for every call session at most one pipeline run is in flight at any
\* time, also when two stream connections carry the same call identifier
\* (their handlers then share the session).
C7_OneRunPerSession ==
    \A o \in Objects : Cardinality(Running(o)) <= 1

\* C8: barge-in.  A speech frame accepted while is_speaking is true sets
\* pending_interrupt; a run whose handler has the flag set does not reach the
\* synthesize stage (it sends no audio); and the flag is false when a run
\* ends.
C8_BargeIn ==
    /\ [](\A h \in Handlers :
            (is_processing[h] /\ hpc[h] \in SpeakPCs) => ~pending_interrupt[h])
    /\ [][\A h \in Handlers :
            /\ (speech_len'[h] > speech_len[h] /\ Session(h).is_speaking)
                 => pending_interrupt'[h]
            /\ RunEnds(h) => ~pending_interrupt'[h]]_vars

\* C9: pending_interrupt becomes true only in handle_media and only while the
\* session's is_speaking is true or a run is in flight; it becomes false only
\* at a checkpoint of a run, in the step that aborts that run (so once per
\* aborted run); a run that reaches a checkpoint with the flag set is aborted
\* there, and a run that passed the first checkpoint has the flag false: the
\* abort happens at the earliest checkpoint.
C9_InterruptFlag ==
    /\ [](\A h \in Handlers :
            (is_processing[h] /\ hpc[h] \notin {"stt", "chk1"})
               => ~pending_interrupt[h])
    /\ [][\A h \in Handlers :
            /\ (~pending_interrupt[h] /\ pending_interrupt'[h])
                 => /\ hpc[h] = "recv"
                    /\ speech_len'[h] > speech_len[h]
                    /\ Session(h).is_speaking \/ is_processing[h]
            /\ (pending_interrupt[h] /\ ~pending_interrupt'[h])
                 => /\ hpc[h] \in {"chk1", "chk2"}
                    /\ RunEnds(h)
                    /\ hpc'[h] = "recv"
            /\ (hpc[h] \in {"chk1", "chk2"} /\ pending_interrupt[h]
                    /\ hpc'[h] # hpc[h])
                 => ~pending_interrupt'[h] /\ RunEnds(h)]_vars

\* a run whose utterance interrupted the greeting or a reply stands at the
\* first checkpoint with the flag set, its user entry already recorded
C9_Witness ==
    \E h \in Handlers :
        /\ hpc[h] = "chk1"
        /\ pending_interrupt[h]
        /\ Session(h).conversation_history[
               Len(Session(h).conversation_history)] = UserEntry

\* C10: the conversation history of a session (a CallState object) is
\* append-only: every step leaves the previous history as a prefix of the new
\* one, no session object disappears, and in every prefix of a history the
\* replies do not outnumber the user entries: the user entry of a run comes
\* before its assistant entry.
C10_AppendOnly ==
    /\ [](\A o \in Objects :
            LET hist == calls[o].conversation_history
            IN  \A n \in 0..Len(hist) :
                    Count(hist, "assistant", n) <= Count(hist, "user", n))
    /\ [][/\ Len(calls') >= Len(calls)
          /\ \A o \in Objects :
                IsPrefix(calls[o].conversation_history,
                         calls'[o].conversation_history)]_vars

\* a session holds the greeting, an utterance and the reply to it, in order
C10_Witness ==
    \E o \in Objects :
        calls[o].conversation_history =
            <<AssistantEntry("greeting"), UserEntry, AssistantEntry("reply")>>

\* the session's history, as the handler reaches it
History(h) == calls[call_state[h]].conversation_history

\* C11: a pipeline run that is aborted before generation leaves no entry in
\* the conversation history.  A run whose handler has pending_interrupt set
\* is in the transcription or at the first checkpoint and is aborted there
\* at the latest (C9), so no step taken while such a run is in flight may
\* change the history.
C11_AbortedRunNoEntry ==
    [][\A h \in Handlers :
          (is_processing[h] /\ pending_interrupt[h])
             => History(h)' = History(h)]_vars

\* C12: the reply, and likewise the greeting, is appended to the history only
\* if its audio was sent: a return from speak that changes the history comes
\* from the stage that follows the send of the audio.
C12_AppendOnlyIfSent ==
    [][\A h \in Handlers :
          (hpc[h] \in SpeakPCs /\ hpc'[h] = "recv" /\ History(h)' # History(h))
             => hpc[h] = "send_mark"]_vars

\* C13: speech of at least the minimum utterance duration followed by silence
\* of at least the trailing-silence duration triggers the pipeline exactly
\* once: the buffered speech is discarded without a run only when it is
\* shorter than the minimum; a run starts only on enough speech and enough
\* silence; and the end of a run leaves an empty buffer, so the following
\* silence frames trigger nothing.
C13_UtteranceComplete ==
    [][\A h \in Handlers :
          /\ (hpc[h] = "recv" /\ is_user_speaking[h] /\ ~is_user_speaking'[h])
               => speech_len[h] < MIN_SPEECH_MS * BytesPerMs
          /\ (~is_processing[h] /\ is_processing'[h])
               => /\ speech_len[h] >= MIN_SPEECH_MS * BytesPerMs
                  /\ silence_start[h] # None /\ SilenceElapsed(h)
          /\ RunEnds(h) => speech_len'[h] = 0 /\ ~is_user_speaking'[h]]_vars

\* CallStatus, lines 15-20, in the order of the lifecycle
StatusRank(st) ==
    CASE st = "ringing" -> 0
      [] st = "in_progress" -> 1
      [] st = "completed" -> 2
      [] st = "failed" -> 3

\* C19: the status of a session is monotonic over ringing, in_progress,
\* completed, failed: no stream event and no webhook moves a session back to
\* an earlier value.
C19_StatusMonotonic ==
    [][\A o \in Objects :
          StatusRank(calls'[o].status) >= StatusRank(calls[o].status)]_vars

\* C14: create_call for a call identifier that is already present fails: the
\* failure is surfaced to the caller and the session registered under the
\* identifier is left as it was.
C14_CreateFailsIfPresent ==
    [][\A sid \in CallSids :
          (get_call(sid) # None /\ RegCreate(sid))
             => /\ ret'.err # "none"
                /\ get_call(sid)' = get_call(sid)
                /\ calls'[get_call(sid)] = calls[get_call(sid)]]_vars

\* C15: register_stream for an unknown call identifier fails and leaves the
\* stream-to-call map unchanged; and in every reachable state every key of
\* the stream-to-call map refers to a call identifier of the call map.
C15_BindFailsIfUnknown ==
    /\ [](\A ss \in StreamSids :
            stream_to_call[ss] # NoSid => get_call(stream_to_call[ss]) # None)
    /\ [][\A ss \in StreamSids, sid \in CallSids :
            (get_call(sid) = None /\ RegBind(ss, sid))
               => ret'.err # "none" /\ stream_to_call' = stream_to_call]_vars

\* C16: the lookups by either key agree.  get_call_by_stream(ss) returns a
\* session exactly when that session's own stream identifier is ss, and it
\* is the session that get_call returns for its call identifier.
C16_LookupsAgree ==
    /\ \A ss \in StreamSids :
          get_call_by_stream(ss) # None
             => /\ calls[get_call_by_stream(ss)].stream_sid = ss
                /\ get_call(calls[get_call_by_stream(ss)].call_sid)
                     = get_call_by_stream(ss)
    /\ \A sid \in CallSids :
          (get_call(sid) # None /\ calls[get_call(sid)].stream_sid # NoSid)
             => get_call_by_stream(calls[get_call(sid)].stream_sid)
                  = get_call(sid)

\* C17: remove_call evicts the session from both maps: afterwards the call
\* map has no entry for the call identifier and no entry of the
\* stream-to-call map has it as its value.
C17_RemoveEvictsBoth ==
    [][\A sid \in CallSids :
          RegRemove(sid)
             => /\ get_call(sid)' = None
                /\ \A ss \in StreamSids : stream_to_call'[ss] # sid]_vars

\* Completed or Failed
Terminal(st) == st \in {"completed", "failed"}

\* C18: end_call sets the status to completed and stamps the end time, and it
\* is idempotent: on a session whose status is already terminal it returns
\* without error and leaves the status and the end time unchanged.
C18_EndCallIdempotent ==
    [][\A sid \in CallSids :
          (get_call(sid) # None /\ RegEnd(sid))
             => /\ calls'[get_call(sid)].status = "completed"
                /\ calls'[get_call(sid)].ended_at # None
                /\ Terminal(calls[get_call(sid)].status)
                     => /\ ret'.err = "none"
                        /\ calls'[get_call(sid)].status
                             = calls[get_call(sid)].status
                        /\ calls'[get_call(sid)].ended_at
                             = calls[get_call(sid)].ended_at]_vars

\* C20: when the call-status webhook reports failed, busy or no-answer for a
\* known call identifier, the session is marked failed and evicted: after
\* the handler returns, get_call finds no session.
C20_FailedEvicts ==
    [][\A sid \in CallSids :
          (get_call(sid) # None /\ CallStatusFailed(sid))
             => /\ ret'.err = "none"
                /\ calls'[get_call(sid)].status = "failed"
                /\ get_call(sid)' = None]_vars

\* C21: when the callee number has no configuration or an inactive one, the
\* stream is never bound.  The webhook answers with the spoken rejection and
\* creates nothing; a stream-start event for a call without a session binds
\* no stream and starts no greeting; and no stream-to-call entry ever leads
\* to a session of such a number.
C21_UnconfiguredNeverBound ==
    /\ [](\A ss \in StreamSids :
            get_call_by_stream(ss) # None
               => get_config_for_call(
                      calls[get_call_by_stream(ss)].twilio_number))
    /\ [][\A sid \in CallSids, to \in Numbers :
            ~get_config_for_call(to)
               => /\ IncomingCall(sid, to)
                       => /\ IncomingCallResponse(to) = "say"
                          /\ UNCHANGED <<calls, reg_calls, stream_to_call>>
                  /\ \A h \in Handlers :
                        (get_call(sid) = None
                           /\ HandleStart(h, sid, StreamOf(h), to))
                          => /\ stream_to_call' = stream_to_call
                             /\ hpc'[h] # "tts"]_vars

\* the stages of a pipeline run
RunPCs == {"stt", "chk1", "llm", "chk2"} \cup SpeakPCs

\* C22: an exception raised inside a pipeline run ends only that run.  The
\* in-flight guard is false whenever the handler is back in its connection
\* loop; every exit from a run (normal end, short text, interrupt, exception)
\* returns the handler to the loop with the guard false and the connection
\* open; and a complete utterance offered to a handler in its loop is never
\* discarded, so it starts a new run.
C22_ExceptionEndsOnlyRun ==
    /\ [](\A h \in Handlers :
            hpc[h] \in {"recv", "closed"} => ~is_processing[h])
    /\ [][\A h \in Handlers :
            /\ (is_processing[h] /\ hpc'[h] # hpc[h])
                 => /\ hpc'[h] \in RunPCs \cup {"recv"}
                    /\ call_state'[h] = call_state[h]
            /\ RunEnds(h) => hpc'[h] = "recv" /\ logged'[h] # "none"
            /\ (hpc[h] = "recv" /\ is_user_speaking[h]
                  /\ ~is_user_speaking'[h])
                 => ~EnoughSpeech(h)]_vars

\* a run has just ended by an exception caught at line 259 and the handler is
\* in its loop again
C22_Witness ==
    \E h \in Handlers :
        logged[h] = "error" /\ hpc[h] = "recv" /\ ~is_processing[h]

\* C23: a malformed protocol event (an unknown event type, a media event
\* without payload or with a payload that cannot be decoded) is ignored: the
\* handler and the session are unchanged and the connection stays open.
C23_MalformedIgnored ==
    [][\A h \in Handlers :
          (UnknownEvent(h) \/ MediaIgnored(h) \/ MediaUndecodable(h))
             => UNCHANGED <<calls, reg_calls, stream_to_call, handlerVars>>]_vars

\* C24: on stream-stop, and on the connection close after it, the session's
\* status becomes completed and the session stays in the registry with its
\* history intact: get_call for its call identifier returns it until
\* remove_call is called.
C24_StopKeepsSession ==
    /\ [](\A h \in Handlers :
            (call_state[h] # None /\ Session(h).status = "completed")
               => get_call(Session(h).call_sid) \in {call_state[h], None})
    /\ [][/\ \A h \in Handlers :
               ((HandleStop(h) \/ Disconnect(h)) /\ call_state[h] # None)
                  => /\ calls'[call_state[h]].status = "completed"
                     /\ History(h)' = History(h)
                     /\ reg_calls' = reg_calls
          /\ \A sid \in CallSids :
               (get_call(sid) # None
                  /\ calls[get_call(sid)].status = "completed"
                  /\ get_call(sid)' # get_call(sid))
                  => RemoveCall(sid)]_vars

\* C25: speech frames that arrive while a pipeline run is in flight are used
\* only for interrupt detection: an accumulator that holds such a frame is
\* never handed to a pipeline run, neither during the run nor after it, and
\* no step taken while it holds one adds an entry to the history.
C25_BusySpeechNotTranscribed ==
    /\ [](\A h \in Handlers : late[h] => ~is_processing[h])
    /\ [][\A h \in Handlers :
            (late[h] /\ call_state[h] # None)
               => History(h)' = History(h)]_vars

\* C26: the utterance accumulator is empty after every finalize (the end of
\* a pipeline run, a discarded utterance) and after session teardown
\* (stream-stop or connection close).
C26_AccumulatorCleared ==
    [][\A h \in Handlers :
          /\ RunEnds(h) => speech_len'[h] = 0
          /\ (is_user_speaking[h] /\ ~is_user_speaking'[h])
               => speech_len'[h] = 0
          /\ (HandleStop(h) \/ Disconnect(h)) => speech_len'[h] = 0]_vars

\* a media frame is handled by h
MediaFrame(h) ==
    \/ MediaIgnored(h)
    \/ \E ms \in FrameMs : MediaSpeech(h, ms)
    \/ MediaSilence(h)

\* C27: a media frame handled before any stream-start (the handler has no
\* session) or after stream-stop is a no-op: it changes neither the
\* detector, the accumulator, pending_interrupt, the session nor the
\* registry, and starts no pipeline run.
C27_MediaOutsideStream ==
    [][\A h \in Handlers :
          ((call_state[h] = None \/ logged[h] = "stopping") /\ MediaFrame(h))
             => UNCHANGED <<calls, reg_calls, stream_to_call, handlerVars>>]_vars

\* the blocking calls of a pipeline run and of speak: stt.transcribe_bytes,
\* llm.generate, tts.synthesize_to_bytes
BlockingPCs == {"stt", "llm", "tts"}

\* C28: while one handler is inside a blocking transcribe, generate or
\* synthesize call, the handlers of the other connections are not blocked:
\* a handler that waits for its next event can take a step before the call
\* returns.
C28_OthersNotBlocked ==
    \A h \in Handlers, g \in Handlers :
        (g # h /\ hpc[h] \in BlockingPCs /\ hpc[g] = "recv"
           /\ call_state[g] # call_state[h])
          => ENABLED HandlerStep(g)

\* C29: load_model is idempotent: however many calls are made, the model (or
\* the pool) is created and loaded at most once, every call of load_model that
\* returns gives the one instance held by the module, which is not None and
\* never changes once set; a warmup that returns leaves the warmed-up flag
\* true, and the flag stays true.
C29_LoadModelIdempotent ==
    /\ [](made <= 1 /\ loads <= 1)
    /\ [][/\ g_model # None => g_model' = g_model
          /\ (ncalls' # ncalls /\ lret'.op = "load_model" /\ ~lret'.raised)
                => (lret'.val # None /\ lret'.val = g_model')
          /\ (ncalls' # ncalls /\ lret'.op = "warmup" /\ ~lret'.raised)
                => g_warmed'
          /\ g_warmed => g_warmed']_vars

\* a later load_model returned the instance that an earlier warmup had loaded
C29_Witness ==
    /\ ncalls >= 3
    /\ lret.op = "load_model" /\ ~lret.raised /\ lret.val = g_model
    /\ g_model # None /\ loads = 1 /\ g_warmed

\* the detector of h is in a pause of the caller's speech that has not yet
\* lasted SILENCE_DURATION_MS
InPause(h) ==
    is_user_speaking[h] /\ silence_start[h] # None /\ ~SilenceElapsed(h)

\* C30: while the caller is speaking, a speech frame read before the silence
\* threshold is reached sets the silence timer back to None and is appended to
\* the accumulator; the bytes accumulated before the pause are kept, the
\* detector stays in speaking and no utterance is handed to the pipeline for
\* the interrupted pause.
C30_SpeechResetsSilenceTimer ==
    [][\A h \in Handlers, ms \in FrameMs :
         (InPause(h) /\ MediaSpeech(h, ms)) =>
            /\ silence_start'[h] = None
            /\ speech_len'[h] = speech_len[h] + ms * BytesPerMs
            /\ speech_len[h] > 0
            /\ is_user_speaking'[h]
            /\ hpc'[h] = "recv"
            /\ is_processing'[h] = is_processing[h]]_vars

\* a pause that has lasted a while, below the threshold, with a speech frame
\* about to be read
C30_Witness ==
    \E h \in Handlers :
        /\ InPause(h) /\ silence_start[h] < now
        /\ speech_len[h] > 0 /\ ~is_processing[h]
        /\ ENABLED MediaSpeech(h, MIN_SPEECH_MS)

\* C31: when a silence frame finds the silence threshold reached, speech
\* shorter than MIN_SPEECH_MS starts no pipeline run, the accumulator is
\* cleared and the detector goes back to idle; speech of MIN_SPEECH_MS or more,
\* the minimum itself included, starts a run.
C31_ShortSpeechDiscarded ==
    [][\A h \in Handlers :
         (/\ MediaSilence(h)
          /\ is_user_speaking[h] /\ silence_start[h] # None
          /\ SilenceElapsed(h) /\ ~is_processing[h])
         => IF speech_len[h] < MIN_SPEECH_MS * BytesPerMs
              THEN /\ hpc'[h] = "recv" /\ ~is_processing'[h]
                   /\ speech_len'[h] = 0
                   /\ ~is_user_speaking'[h]
                   /\ silence_start'[h] = None
              ELSE is_processing'[h] /\ hpc'[h] = "stt"]_vars

\* C32: a pipeline run whose transcription is empty or too short is discarded:
\* the run ends at once (neither generate nor synthesize is reached and no
\* audio is sent), nothing is appended to any conversation history, and
\* is_speaking and pending_interrupt are left as they were.
C32_ShortTextDiscarded ==
    [][\A h \in Handlers :
         (hpc[h] = "stt" /\ logged'[h] = "too short")
         => /\ hpc'[h] = "recv" /\ ~is_processing'[h]
            /\ calls' = calls
            /\ pending_interrupt'[h] = pending_interrupt[h]
            /\ ctx' = ctx]_vars

\* a run was discarded during playback with an interrupt pending
C32_Witness ==
    \E h \in Handlers :
        /\ logged[h] = "too short" /\ hpc[h] = "recv"
        /\ Session(h).is_speaking /\ pending_interrupt[h]
        /\ Len(Session(h).conversation_history) > 0

\* the audio of a reply or greeting is being sent or has been sent by h, and
\* speak() has not returned
AudioPCs == {"send_audio", "send_mark"}

\* C33: is_speaking of the session is true when a handler sends the audio of
\* a reply or greeting and stays true while speak() goes on; it becomes false
\* only when a handler of the session handles the mark "speech_end" echoed by
\* the carrier or when its speak() fails.
C33_SpeakingUntilMark ==
    /\ [](\A h \in Handlers : hpc[h] \in AudioPCs => Session(h).is_speaking)
    /\ [][\A o \in Objects :
            (calls[o].is_speaking /\ ~calls'[o].is_speaking)
            => \E h \in Handlers :
                 /\ call_state[h] = o
                 /\ \/ HandleMark(h, "speech_end")
                    \/ (hpc[h] \in SpeakPCs /\ SpeakReturns(h, TRUE))]_vars

\* the callers inside the scan of lines 138-142
ScanPCs == {"g140", "g141"}

\* C34: worker selection is deterministic.  A scan tries the workers in the
\* order of the list, from the first, and goes past a worker only if it found
\* it held; so when nobody else acquires or releases during the scan, every
\* worker below the one the scan stands at or returns is held by another
\* caller (the lowest free worker is returned), a timed-out caller takes
\* worker 0, and a scan goes to another worker than worker 0 only while
\* another caller holds worker 0, that is, only for overlapping calls.
C34_LowestFreeWorker ==
    /\ [](\A c \in Callers :
            /\ pc[c] \in ScanPCs =>
                 \A j \in 1..(inst[c] - 1) : instances[j].lock \notin {Free, c}
            /\ pc[c] \in {"g150", "g151"} => inst[c] = 1
            /\ (pc[c] \in ScanPCs /\ inst[c] > 1) =>
                 \E d \in Callers \ {c} : Held(d) /\ inst[d] = 1
                                          /\ instances[1].lock = d)
    /\ [][\A c \in Callers :
            /\ (pc[c] = "g136" /\ pc'[c] = "g140") => inst'[c] = 1
            /\ (pc[c] = "g140" /\ inst'[c] = inst[c] + 1) =>
                 /\ instances[inst[c]].lock # Free
                 /\ instances' = instances
            /\ (pc[c] = "g140" /\ pc'[c] = "g141") =>
                 /\ inst'[c] = inst[c]
                 /\ instances[inst[c]].lock = Free
                 /\ instances'[inst[c]].lock = c]_vars

\* a scan went past the held worker 0 and returned worker 1
C34_Witness ==
    \E c \in Callers :
        /\ pc[c] = "t175" /\ via[c] = "scan" /\ inst[c] = 2
        /\ instances[1].lock \notin {Free, c}
        /\ instances[2].lock = c

\* the callers blocked in, or just past, the acquire of line 150
FallbackPCs == {"g150", "g151"}

\* C35: a caller whose polling timed out acquires only worker 0: it can take
\* no step while worker 0 is held, whatever the state of the other workers,
\* and it leaves line 150 only by taking the free lock of worker 0.  Nothing
\* orders the competitors: whenever worker 0 is free, every fallback waiter
\* and every scan that stands at worker 0 is able to take it.
C35_FallbackWaitsForWorker0 ==
    /\ [](\A c \in Callers :
            /\ pc[c] \in FallbackPCs => inst[c] = 1
            /\ (Held(c) /\ via[c] = "fallback") => instances[1].lock = c
            /\ (pc[c] = "g150" /\ instances[1].lock # Free)
                  => ~ENABLED CallerStep(c)
            /\ (pc[c] = "g150" /\ instances[1].lock = Free)
                  => ENABLED FallbackAcquire(c)
            /\ (pc[c] = "g140" /\ inst[c] = 1 /\ instances[1].lock = Free)
                  => ENABLED (ScanStep(c) /\ instances'[1].lock = c))
    /\ [][\A c \in Callers :
            (pc[c] = "g150" /\ pc'[c] # "g150")
            => /\ instances[1].lock = Free
               /\ instances'[1].lock = c
               /\ pc'[c] = "g151"]_vars

\* two timed-out callers are blocked on worker 0, which a scan took, while
\* worker 1 is free
C35_Witness ==
    \E c, d, e \in Callers :
        /\ c # d /\ c # e /\ d # e
        /\ pc[c] = "g150" /\ pc[e] = "g150"
        /\ instances[1].lock = d /\ via[d] = "scan"
        /\ \E j \in Workers : j > 1 /\ instances[j].lock = Free

\* C36: an interrupt is pending only for the utterance whose speech arrived
\* during playback: a speech frame sets pending_interrupt only while
\* is_speaking is true, an utterance that begins while is_speaking is false
\* begins with no interrupt pending, and a run that finds no interrupt pending
\* at the checkpoint before generation goes on to generate; so a later
\* utterance spoken outside playback is never aborted by a stale flag.
C36_NoStaleInterrupt ==
    [][\A h \in Handlers :
         /\ (~pending_interrupt[h] /\ pending_interrupt'[h])
              => (call_state[h] # None /\ Session(h).is_speaking)
         /\ (/\ hpc[h] = "recv" /\ call_state[h] # None
             /\ ~is_user_speaking[h] /\ is_user_speaking'[h]
             /\ ~Session(h).is_speaking)
              => ~pending_interrupt'[h]
         /\ (hpc[h] = "chk1" /\ ~pending_interrupt[h] /\ hpc'[h] # "chk1")
              => hpc'[h] = "llm"]_vars

\* the stages of a pipeline run after the checkpoint before generation
PastCheck1PCs == {"llm", "chk2"} \cup SpeakPCs

\* C37: a handler handles its events one at a time.  While a pipeline run is
\* in flight the handler reads no event: its detector state and
\* pending_interrupt do not change until the run ends, so pending_interrupt
\* never goes from false to true during a run, no interrupt is pending once
\* the run is past the checkpoint before generation (the checkpoint before
\* synthesis never aborts), and every trigger finds the guard of
\* process_speech open.
C37_OneEventAtATime ==
    /\ [](\A h \in Handlers :
            /\ is_processing[h] <=> (hpc[h] \in RunPCs /\ ctx[h] # "greeting")
            /\ (is_processing[h] /\ hpc[h] \in PastCheck1PCs)
                  => ~pending_interrupt[h])
    /\ [][\A h \in Handlers :
            /\ (is_processing[h] /\ ~pending_interrupt[h])
                  => ~pending_interrupt'[h]
            /\ (is_processing[h] /\ is_processing'[h])
                  => /\ speech_len'[h] = speech_len[h]
                     /\ is_user_speaking'[h] = is_user_speaking[h]
                     /\ call_state'[h] = call_state[h]
                     /\ stream_sid'[h] = stream_sid[h]
            /\ (hpc[h] = "chk2" /\ hpc'[h] # "chk2")
                  => (hpc'[h] = "tts" /\ logged'[h] # "interrupt")]_vars

\* a run went past both checkpoints and is sending its reply; a speech frame
\* has arrived meanwhile, during playback, and no interrupt is pending
C37_Witness ==
    \E h \in Handlers :
        /\ hpc[h] = "send_mark" /\ is_processing[h]
        /\ backlog[h] > 0 /\ Session(h).is_speaking
        /\ ~pending_interrupt[h]

\* a caller that has issued its call and has not returned from it
InCall(c) == pc[c] \notin {"idle", "done"}

\* C38: the pool lock is held exactly by the caller inside the scan of lines
\* 138-142, which never waits there: not by a caller that sleeps, blocks on a
\* worker's lock or runs the engine.  So the pool cannot deadlock: as long as
\* some caller is inside a call, some caller inside a call can take a step
\* (every engine call returns or raises).
C38_PoolLockOnlyInScan ==
    \A c \in Callers :
        /\ pool_lock = c <=> pc[c] \in ScanPCs
        /\ pool_lock \in Callers \cup {Free}
        /\ pc[c] \in ScanPCs => ENABLED CallerStep(c)
        /\ InCall(c) => \E d \in Callers : InCall(d) /\ ENABLED CallerStep(d)

\* two callers block on the lock of worker 0 while a third runs the engine
\* on it, and nobody holds the pool lock
C38_Witness ==
    \E c, d, e \in Callers :
        /\ c # d /\ c # e /\ d # e
        /\ pc[c] = "g150" /\ pc[d] = "g150"
        /\ pc[e] = "t181" /\ instances[1].lock = e
        /\ ~ENABLED CallerStep(c) /\ ~ENABLED CallerStep(d)
        /\ pool_lock = Free

\* the lines between instance.busy = True and instance.busy = False
BusyPCs == {"t175", "t181", "t194", "t156"}

\* C39: a worker's busy flag is true only while its lock is held by the caller
\* that set the flag: busy is set by the holder after it acquired the lock
\* and cleared by the holder before it releases it, so a free worker is never
\* busy and no caller clears the flag of a worker held by another.
C39_BusyOnlyWhileHeld ==
    /\ [](\A i \in Workers :
            /\ instances[i].busy =>
                 \E c \in Callers : /\ instances[i].lock = c
                                    /\ inst[c] = i /\ pc[c] \in BusyPCs
            /\ instances[i].lock = Free => ~instances[i].busy)
    /\ [][\A i \in Workers :
            /\ (~instances[i].busy /\ instances'[i].busy) =>
                 \E c \in Callers : /\ instances[i].lock = c
                                    /\ instances'[i].lock = c
                                    /\ inst[c] = i
                                    /\ pc[c] \in {"g141", "g151"}
            /\ (instances[i].busy /\ ~instances'[i].busy) =>
                 \E c \in Callers : /\ instances[i].lock = c
                                    /\ instances'[i].lock = c
                                    /\ inst[c] = i
                                    /\ pc[c] = "t156"]_vars

\* in a pool of the configured size one caller has cleared busy and still
\* holds the lock of its worker, while another runs the engine on a busy worker
C39_Witness ==
    /\ Len(instances) = NumInstances
    /\ \E c, e \in Callers :
          /\ pc[c] = "t157" /\ instances[inst[c]].lock = c
          /\ ~instances[inst[c]].busy
          /\ pc[e] = "t181" /\ instances[inst[e]].lock = e
          /\ instances[inst[e]].busy

\* the transcribe calls that completed their engine call on worker i
Completed(i) ==
    {c \in Callers : /\ op[c] = "transcribe" /\ outcome[c] = "text"
                     /\ inst[c] = i /\ pc[c] \in {"t156", "t157", "done"}}

\* C40: the usage count of each worker equals the number of transcribe calls
\* that completed successfully on it: the count changes only by one, in a
\* step of the caller that holds the worker's lock and whose engine call
\* returned; no increment is lost under concurrent callers, and a call whose
\* engine call raised leaves the count alone.
C40_CountEqualsCompleted ==
    /\ [](\A i \in Workers :
            instances[i].total_inferences = Cardinality(Completed(i)))
    /\ [][\A i \in Workers :
            instances'[i].total_inferences # instances[i].total_inferences
            => \E c \in Callers :
                 /\ instances[i].lock = c /\ instances'[i].lock = c
                 /\ inst[c] = i /\ pc[c] = "t194"
                 /\ outcome'[c] = "text"
                 /\ instances'[i].total_inferences
                       = instances[i].total_inferences + 1]_vars

\* worker 0 served two calls one after the other and counts both, worker 1
\* served a call whose engine call raised and counts none
C40_Witness ==
    /\ Len(instances) = NumInstances
    /\ instances[1].total_inferences = 2
    /\ instances[2].total_inferences = 0
    /\ \E c \in Callers :
          pc[c] = "done" /\ outcome[c] = "engine_error" /\ inst[c] = 2

=============================================================================
